---- MODULE Spec2Model ----
(***************************************************************************)
(* Model of the country-data cleaning and integration pipeline:           *)
(*   clean_df.py            name normalisation, row filter, the three      *)
(*                          cleaners and their pipeline                    *)
(*   feature_engineering.py total GDP, inner join, zero/NaN imputation     *)
(*                                                                         *)
(* Text is modelled as a sequence of characters, one string per character. *)
(* The accented letters of the replacement table are written as the ASCII  *)
(* tokens "o^" (o circumflex), "e/" (e acute) and "c," (c cedilla), with   *)
(* "O^", "E/", "C," their capitals.                                        *)
(* Numbers are exact rationals <<n, d>> (d > 0, lowest terms); the missing *)
(* value is NaN.  Floating-point rounding is not modelled.                 *)
(***************************************************************************)
EXTENDS Integers, Sequences, FiniteSets, TLC

VARIABLES
    nm_pc,      \* position of the name-handling run
    nm_in,      \* the Country column handed to the helpers
    nm_kept,    \* rows returned by _drop_non_country_rows
    nm_once,    \* _normalise_country_series(nm_in)
    nm_twice,   \* _normalise_country_series(nm_once)
    pc,         \* position of clean_df.main
    err,        \* the exception that ended the run, or "none"
    na_cast,    \* what float(pd.NA) does in the installed library
    loc_src,    \* the cleaner whose local tables the loc_ variables hold
    loc_coerced,\* its df after filter, normalisation and numeric coercion
    loc_valid,  \* its df after the missing/invalid rows were dropped
    loc_dedup,  \* its df after drop_duplicates
    demo_df,    \* clean_demographics' returned table
    name_map,   \* clean_demographics' returned raw -> canonical mapping
    gdp_df,     \* clean_gdp's returned table
    pop_df,     \* clean_population's returned table
    gdp_dropped,\* dropped_gdp.csv as written by this run
    pop_dropped,\* dropped_population.csv as written by this run
    saved,      \* cleaned tables persisted by this run
    loc_raw,    \* the Country_raw column beside loc_coerced (demographics)
    loc_cols,   \* the value columns of its CSV, in file order
    loc_col,    \* the column it takes its primary value from
    loc_dropped,\* the counts in its printed "Dropped n row(s)" lines
    loc_outliers, \* the counts in its printed "Tukey outliers" lines
    fe_pc,      \* position of feature_engineering.main
    fe_demo,    \* cleaned_demographics.csv as loaded
    fe_gdp,     \* cleaned_gdp.csv as loaded, then with TotalGDP
    fe_pop,     \* cleaned_population.csv as loaded
    fe_joined,  \* df_final right after the inner join
    merged,     \* the table integrate_and_save returns
    lost_file,  \* lost_countries.csv as written by this run
    zero_file,  \* missing_values.csv as written by this run
    le_header,  \* the life-expectancy column's name in cleaned_demographics.csv
    logged,     \* merged after add_log_features
    standardized, \* merged after zscore_selected
    X,          \* the feature matrix saved as X.npy
    fe_err,     \* the exception that ended feature_engineering.main, or "none"
    tk_pc,      \* position of the outlier-report run
    tk_src,     \* the cleaner whose outlier report is run: "gdp" or "pop"
    tk_in,      \* the primary column handed to the report
    tk_out,     \* the primary column after the report
    tk_count,   \* the counts in the printed lines
    run_pc,     \* position of main.py
    run_k,      \* index in STEPS of the step main.py is at
    run_present,\* the scripts that exist beside main.py
    run_log,    \* what main.py did so far, in order
    run_err     \* the exception that ended main.py, or "none"

nm_vars == <<nm_pc, nm_in, nm_kept, nm_once, nm_twice>>

cl_vars ==
    <<pc, err, na_cast, loc_src, loc_coerced, loc_valid, loc_dedup, demo_df,
      name_map, gdp_df, pop_df, gdp_dropped, pop_dropped, saved, loc_raw,
      loc_cols, loc_col, loc_dropped, loc_outliers>>

fe_vars ==
    <<fe_pc, fe_demo, fe_gdp, fe_pop, fe_joined, merged, lost_file, zero_file,
      le_header, logged, standardized, X, fe_err>>

(* what the steps of feature_engineering.main after integrate_and_save write *)
fe_out == <<logged, standardized, X, fe_err>>

(* what the cleaners of clean_df.main read and write *)
cl_data ==
    <<err, loc_src, loc_coerced, loc_valid, loc_dedup, demo_df, name_map, gdp_df,
      pop_df, gdp_dropped, pop_dropped, saved, loc_raw, loc_cols, loc_col,
      loc_dropped, loc_outliers>>

tk_vars == <<tk_pc, tk_src, tk_in, tk_out, tk_count>>

run_vars == <<run_pc, run_k, run_present, run_log, run_err>>

vars == <<nm_vars, cl_vars, fe_vars, tk_vars, run_vars>>

----------------------------------------------------------------------------
(* Characters *)

lowers ==
    <<"a","b","c","d","e","f","g","h","i","j","k","l","m","n","o","p","q",
      "r","s","t","u","v","w","x","y","z","o^","e/","c,">>

uppers ==
    <<"A","B","C","D","E","F","G","H","I","J","K","L","M","N","O","P","Q",
      "R","S","T","U","V","W","X","Y","Z","O^","E/","C,">>

Digits == {"0","1","2","3","4","5","6","7","8","9"}

IsLower(c) == \E i \in 1..Len(lowers) : lowers[i] = c

IsUpper(c) == \E i \in 1..Len(uppers) : uppers[i] = c

IsCased(c) == IsLower(c) \/ IsUpper(c)

IsSpace(c) == c \in {" ", "\n", "\t"}

ToLower(c) ==
    IF IsUpper(c) THEN lowers[CHOOSE i \in 1..Len(uppers) : uppers[i] = c] ELSE c

ToUpper(c) ==
    IF IsLower(c) THEN uppers[CHOOSE i \in 1..Len(lowers) : lowers[i] = c] ELSE c

(* str.strip(): leading and trailing whitespace removed *)
lstrip(s) ==
    IF \A i \in 1..Len(s) : IsSpace(s[i]) THEN <<>>
    ELSE SubSeq(s, CHOOSE a \in 1..Len(s) :
                     /\ ~IsSpace(s[a])
                     /\ \A i \in 1..(a-1) : IsSpace(s[i]), Len(s))

rstrip(s) ==
    IF \A i \in 1..Len(s) : IsSpace(s[i]) THEN <<>>
    ELSE SubSeq(s, 1, CHOOSE b \in 1..Len(s) :
                        /\ ~IsSpace(s[b])
                        /\ \A i \in (b+1)..Len(s) : IsSpace(s[i]))

strip(s) == rstrip(lstrip(s))

(* str.title(): a cased character is upper-cased when it follows an uncased
   one (or starts the string) and lower-cased when it follows a cased one *)
title(s) ==
    [i \in 1..Len(s) |->
        IF ~IsCased(s[i]) THEN s[i]
        ELSE IF i > 1 /\ IsCased(s[i-1]) THEN ToLower(s[i]) ELSE ToUpper(s[i])]

StartsWithCI(s, p) ==
    /\ Len(s) >= Len(p)
    /\ \A j \in 1..Len(p) : ToLower(s[j]) = ToLower(p[j])

EndsWithCI(s, p) ==
    /\ Len(s) >= Len(p)
    /\ \A j \in 1..Len(p) : ToLower(s[Len(s) - Len(p) + j]) = ToLower(p[j])

RECURSIVE LowerStr(_)
(* str.lower *)
LowerStr(n) == IF n = <<>> THEN <<>> ELSE <<ToLower(Head(n))>> \o LowerStr(Tail(n))

(* str.startswith *)
StartsWith(s, p) == Len(s) >= Len(p) /\ SubSeq(s, 1, Len(p)) = p

(* Python's "p in n" on text *)
IsInfix(p, n) == \E i \in 0..(Len(n) - Len(p)) : SubSeq(n, i + 1, i + Len(p)) = p

----------------------------------------------------------------------------
(* Country-name normalisation *)

SPECIAL_REPLACEMENTS ==
  << <<<<"C","a","p","e"," ","V","e","r","d","e">>,
      <<"C","a","b","o"," ","V","e","r","d","e">>>>,
     <<<<"C","z","e","c","h","i","a">>,
      <<"C","z","e","c","h"," ","R","e","p","u","b","l","i","c"," ","(","C","z","e","c","h","i","a",")">>>>,
     <<<<"S","w","a","z","i","l","a","n","d">>,
      <<"E","s","w","a","t","i","n","i">>>>,
     <<<<"E","a","s","t"," ","T","i","m","o","r">>,
      <<"T","i","m","o","r","-","L","e","s","t","e">>>>,
     <<<<"S","a","i","n","t"," ","V","i","n","c","e","n","t"," ","A","n","d"," ","T","h","e"," ","G","r","e","n","a","d","i","n","e","s">>,
      <<"S","t","."," ","V","i","n","c","e","n","t"," ","&"," ","G","r","e","n","a","d","i","n","e","s">>>>,
     <<<<"S","a","i","n","t"," ","V","i","n","c","e","n","t"," ","a","n","d"," ","T","h","e"," ","G","r","e","n","a","d","i","n","e","s">>,
      <<"S","t","."," ","V","i","n","c","e","n","t"," ","&"," ","G","r","e","n","a","d","i","n","e","s">>>>,
     <<<<"U","n","i","t","e","d"," ","S","t","a","t","e","s"," ","V","i","r","g","i","n"," ","I","s","l","a","n","d","s">>,
      <<"U",".","S","."," ","V","i","r","g","i","n"," ","I","s","l","a","n","d","s">>>>,
     <<<<"S","a","o"," ","T","o","m","e"," ","a","n","d"," ","P","r","i","n","c","i","p","e">>,
      <<"S","a","o"," ","T","o","m","e"," ","&"," ","P","r","i","n","c","i","p","e">>>>,
     <<<<"S","a","o"," ","T","o","m","e"," ","A","n","d"," ","P","r","i","n","c","i","p","e">>,
      <<"S","a","o"," ","T","o","m","e"," ","&"," ","P","r","i","n","c","i","p","e">>>>,
     <<<<"P","a","l","e","s","t","i","n","e">>,
      <<"S","t","a","t","e"," ","O","f"," ","P","a","l","e","s","t","i","n","e">>>>,
     <<<<"C","o","t","e"," ","D","'","I","v","o","i","r","e">>,
      <<"C","o^","t","e"," ","d","'","I","v","o","i","r","e">>>>,
     <<<<"R","e","u","n","i","o","n">>,
      <<"R","e/","u","n","i","o","n">>>>,
     <<<<"D","e","m","o","c","r","a","t","i","c"," ","R","e","p","u","b","l","i","c"," ","O","f"," ","C","o","n","g","o">>,
      <<"D","R"," ","C","o","n","g","o">>>>,
     <<<<"C","u","r","a","c","a","o">>,
      <<"C","u","r","a","c,","a","o">>>> >>

Replacement(s) ==
    IF \E i \in 1..Len(SPECIAL_REPLACEMENTS) : SPECIAL_REPLACEMENTS[i][1] = s
    THEN SPECIAL_REPLACEMENTS[CHOOSE i \in 1..Len(SPECIAL_REPLACEMENTS) :
                                 SPECIAL_REPLACEMENTS[i][1] = s][2]
    ELSE s

COUNTRY_SUFFIX == <<"(","c","o","u","n","t","r","y",")">>

THE_PREFIX == <<"t","h","e">>

(* s.str.replace(r"\s*\(country\)$", "", flags=re.I) on a stripped string *)
strip_country_suffix(s) ==
    IF EndsWithCI(s, COUNTRY_SUFFIX)
    THEN rstrip(SubSeq(s, 1, Len(s) - Len(COUNTRY_SUFFIX)))
    ELSE s

(* s.str.replace(r"^the\s+", "", flags=re.I) *)
strip_leading_the(s) ==
    IF /\ StartsWithCI(s, THE_PREFIX)
       /\ Len(s) > Len(THE_PREFIX)
       /\ IsSpace(s[Len(THE_PREFIX) + 1])
    THEN lstrip(SubSeq(s, Len(THE_PREFIX) + 1, Len(s)))
    ELSE s

normalise_country(s) ==
    Replacement(title(strip_leading_the(strip_country_suffix(strip(s)))))


----------------------------------------------------------------------------
(* Row filter *)

(* the tuple as Python reads it: its last element "\d" is the two
   characters backslash and d *)
CONTINENT_KEYWORDS ==
    << <<"A","f","r","i","c","a">>, <<"A","m","e","r","i","c","a">>,
       <<"A","s","i","a">>, <<"E","u","r","o","p","e">>,
       <<"I","n","c","o","m","e">>, <<"W","o","r","l","d">>,
       <<"U","n",")">>, <<"(","W","b">>, <<"\\","d">> >>

(* re.escape: every character of the keyword becomes a literal atom *)
re_escape(k) == [i \in 1..Len(k) |-> [kind |-> "lit", ch |-> k[i]]]

(* one regex atom against one character, case-insensitively *)
MatchAtom(a, c) ==
    IF a.kind = "lit" THEN ToLower(c) = ToLower(a.ch) ELSE c \in Digits

(* re.search of one alternative (a sequence of atoms) anywhere in s *)
Search(s, atoms) ==
    \E i \in 0..(Len(s) - Len(atoms)) :
        \A j \in 1..Len(atoms) : MatchAtom(atoms[j], s[i + j])

NonCountryPattern ==
    <<re_escape(<<"\n">>)>> \o
    [i \in 1..Len(CONTINENT_KEYWORDS) |-> re_escape(CONTINENT_KEYWORDS[i])]

mask_bad(name) ==
    \E i \in 1..Len(NonCountryPattern) : Search(name, NonCountryPattern[i])

(* df.loc[keep]: the rows at the positions in keep, in row order *)
SelectRows(df, keep) ==
    LET at(k) == CHOOSE i \in keep : Cardinality({j \in keep : j < i}) = k - 1
    IN  [k \in 1..Cardinality(keep) |-> df[at(k)]]

(* the country names that occur in the tables of the cleaning run *)
TableNames ==
    { <<"D","R"," ","C","o","n","g","o">>,
      <<"D","e","m","o","c","r","a","t","i","c"," ","R","e","p","u","b","l","i","c"," ","O","f"," ","C","o","n","g","o">>,
      <<"S","o","u","t","h"," ","A","s","i","a">> }

(* mask_bad and normalise_country of the table names, computed once *)
NameFacts == { <<n, mask_bad(n), normalise_country(n)>> : n \in TableNames }

is_non_country(n) ==
    IF n \in TableNames THEN (CHOOSE p \in NameFacts : p[1] = n)[2] ELSE mask_bad(n)

canonical(n) ==
    IF n \in TableNames THEN (CHOOSE p \in NameFacts : p[1] = n)[3]
    ELSE normalise_country(n)

drop_non_country_rows(df) ==
    SelectRows(df, {i \in 1..Len(df) : ~is_non_country(df[i].Country)})

----------------------------------------------------------------------------
(* Numbers: exact rationals <<n, d>> with d > 0, and the missing value,
   written with denominator 0 *)

NaN == <<0, 0>>

Abs(n) == IF n < 0 THEN -n ELSE n

RECURSIVE GCD(_, _)
GCD(a, b) == IF b = 0 THEN a ELSE GCD(b, a % b)

Rat(n, d) ==
    LET g == GCD(Abs(n), Abs(d))
        sgn == IF d < 0 THEN -1 ELSE 1
    IN  <<sgn * (n \div g), sgn * (d \div g)>>

Int2Rat(n) == <<n, 1>>

RatAdd(a, b) == Rat(a[1] * b[2] + b[1] * a[2], a[2] * b[2])

RatMul(a, b) == Rat(a[1] * b[1], a[2] * b[2])

RatLess(a, b) == a[1] * b[2] < b[1] * a[2]

isna(x) == x = NaN

(* x == 0 and x != 0 on a float cell: NaN compares unequal to everything *)
IsZero(x) == ~isna(x) /\ x[1] = 0

(* a * b on float cells: NaN propagates *)
Times(a, b) == IF isna(a) \/ isna(b) THEN NaN ELSE RatMul(a, b)

RECURSIVE SumRat(_)
SumRat(xs) == IF xs = <<>> THEN Int2Rat(0) ELSE RatAdd(Head(xs), SumRat(Tail(xs)))

(* Series.mean(): the mean of the non-missing values, NaN when there is none *)
mean(xs) ==
    LET present == SelectSeq(xs, LAMBDA x : ~isna(x))
    IN  IF present = <<>> THEN NaN
        ELSE RatMul(SumRat(present), Rat(1, Len(present)))

----------------------------------------------------------------------------
(* Numeric coercion of a cell's text *)

KeepChars(s, allowed) == SelectSeq(s, LAMBDA c : c \in allowed)

DigitVal(c) == CHOOSE v \in 0..9 : <<"0","1","2","3","4","5","6","7","8","9">>[v + 1] = c

RECURSIVE DigitsToInt(_)
DigitsToInt(ds) ==
    IF ds = <<>> THEN 0
    ELSE 10 * DigitsToInt(SubSeq(ds, 1, Len(ds) - 1)) + DigitVal(ds[Len(ds)])

RECURSIVE Pow10(_)
Pow10(k) == IF k = 0 THEN 1 ELSE 10 * Pow10(k - 1)

Unsigned(s) == IF s # <<>> /\ Head(s) = "-" THEN Tail(s) ELSE s

(* float(s) succeeds on a text of digits, "." and "-" exactly when it is an
   optional sign, then digits with at most one "." and at least one digit *)
float_ok(s) ==
    LET u == Unsigned(s)
    IN  /\ \A i \in 1..Len(u) : u[i] \in Digits \cup {"."}
        /\ Cardinality({i \in 1..Len(u) : u[i] = "."}) <= 1
        /\ \E i \in 1..Len(u) : u[i] \in Digits

float_of(s) ==
    LET u    == Unsigned(s)
        ds   == KeepChars(u, Digits)
        dot  == IF \E i \in 1..Len(u) : u[i] = "."
                THEN CHOOSE i \in 1..Len(u) : u[i] = "." ELSE Len(u) + 1
        frac == Len(u) - dot
        mag  == Rat(DigitsToInt(ds), Pow10(IF frac < 0 THEN 0 ELSE frac))
    IN  IF u # s THEN <<-mag[1], mag[2]>> ELSE mag

(* pd.to_numeric(text.replace(",", ""), errors="coerce") *)
numericise(cell) ==
    LET t == SelectSeq(cell, LAMBDA c : c # ",")
    IN  IF float_ok(t) THEN float_of(t) ELSE NaN

GDP_ALLOWED == Digits \cup {".", "-"}

POP_ALLOWED == Digits

(* what .astype(float) makes of one stripped GDP cell: a float, NaN, or the
   exception it raises.  The empty text was replaced by pd.NA, whose cast
   to float either raises TypeError or gives NaN, depending on the library
   version (na_cast) *)
Cast(e, v) == [err |-> e, val |-> v]

gdp_coerce_cell(cell, cast) ==
    LET t == KeepChars(cell, GDP_ALLOWED)
    IN  IF t = <<>>
        THEN (IF cast = "raises" THEN Cast("TypeError", NaN) ELSE Cast("none", NaN))
        ELSE IF float_ok(t) THEN Cast("none", float_of(t))
        ELSE Cast("ValueError", NaN)

(* the same for a Population cell: the empty text was replaced by np.nan *)
pop_coerce_cell(cell) ==
    LET t == KeepChars(cell, POP_ALLOWED)
    IN  IF t = <<>> THEN Cast("none", NaN)
        ELSE IF float_ok(t) THEN Cast("none", float_of(t))
        ELSE Cast("ValueError", NaN)

----------------------------------------------------------------------------
(* Logarithms and the Tukey outlier count *)

(* -inf, as np.log10(0) gives it *)
NegInf == <<-1, 0>>

IsPow10(n) == \E k \in 0..9 : Pow10(k) = n

Exp10(n) == CHOOSE k \in 0..9 : Pow10(k) = n

(* np.log10 of one cell: NaN for a missing or negative value, -inf for 0,
   the exact exponent for a power of ten; the logarithm of any other
   positive number n/d is irrational and is held as the term <<n, d, 10>>,
   which equals another cell exactly when the two logarithms are equal *)
log10(x) ==
    IF isna(x) \/ x[1] < 0 THEN NaN
    ELSE IF x[1] = 0 THEN NegInf
    ELSE IF x[2] = 1 /\ IsPow10(x[1]) THEN Int2Rat(Exp10(x[1]))
    ELSE IF x[1] = 1 /\ IsPow10(x[2]) THEN Int2Rat(-Exp10(x[2]))
    ELSE <<x[1], x[2], 10>>

RatSub(a, b) == RatAdd(a, <<-b[1], b[2]>>)

RECURSIVE InsertValue(_, _)
InsertValue(x, sorted) ==
    IF sorted = <<>> THEN <<x>>
    ELSE IF RatLess(x, Head(sorted)) THEN <<x>> \o sorted
    ELSE <<Head(sorted)>> \o InsertValue(x, Tail(sorted))

RECURSIVE SortValues(_)
SortValues(xs) ==
    IF xs = <<>> THEN <<>> ELSE InsertValue(Head(xs), SortValues(Tail(xs)))

(* Series.quantile(q4 / 4) with the default linear interpolation: the value
   at position q4 * (n - 1) / 4 of the sorted non-missing values; NaN for
   no value *)
quantile(xs, q4) ==
    LET sorted == SortValues(SelectSeq(xs, LAMBDA x : ~isna(x)))
        pos4 == q4 * (Len(sorted) - 1)
        below == sorted[(pos4 \div 4) + 1]
    IN  IF sorted = <<>> THEN NaN
        ELSE IF pos4 % 4 = 0 THEN below
        ELSE RatAdd(below,
                    RatMul(Rat(pos4 % 4, 4), RatSub(sorted[(pos4 \div 4) + 2], below)))

(* the count with the fences themselves counted as outliers *)
tukey_outliers_inclusive(xs) ==
    IF \A i \in 1..Len(xs) : isna(xs[i]) THEN 0
    ELSE LET q1 == quantile(xs, 1)
             q3 == quantile(xs, 3)
             iqr == RatSub(q3, q1)
             lo == RatSub(q1, RatMul(Rat(3, 2), iqr))
             hi == RatAdd(q3, RatMul(Rat(3, 2), iqr))
         IN  Cardinality({i \in 1..Len(xs) : ~RatLess(lo, xs[i]) \/ ~RatLess(xs[i], hi)})

(* ((col < lo) | (col > hi)).sum() with lo, hi = q1 - 1.5 * iqr,
   q3 + 1.5 * iqr; every comparison with a missing value, and with the NaN
   fences of a column that has no value, is false *)
tukey_outliers(xs) ==
    IF \A i \in 1..Len(xs) : isna(xs[i]) THEN 0
    ELSE LET q1 == quantile(xs, 1)
             q3 == quantile(xs, 3)
             iqr == RatSub(q3, q1)
             lo == RatSub(q1, RatMul(Rat(3, 2), iqr))
             hi == RatAdd(q3, RatMul(Rat(3, 2), iqr))
         IN  Cardinality({i \in 1..Len(xs) : RatLess(xs[i], lo) \/ RatLess(hi, xs[i])})

(* the primary column of a cleaner's table *)
Values(df) == [i \in 1..Len(df) |-> df[i].val]

(* np.log10(df[pop_col]) *)
log10_series(xs) == [i \in 1..Len(xs) |-> log10(xs[i])]

----------------------------------------------------------------------------
(* Table helpers *)

(* characters in code-point order, as sort_index compares them *)
CodeOrder ==
    <<"\t","\n"," ","$","&","'","(",")",",","-",".",
      "0","1","2","3","4","5","6","7","8","9",
      "A","B","C","D","E","F","G","H","I","J","K","L","M","N","O","P","Q",
      "R","S","T","U","V","W","X","Y","Z","\\",
      "a","b","c","d","e","f","g","h","i","j","k","l","m","n","o","p","q",
      "r","s","t","u","v","w","x","y","z","C,","E/","O^","c,","e/","o^">>

Ord(c) == CHOOSE i \in 1..Len(CodeOrder) : CodeOrder[i] = c

RECURSIVE StrLess(_, _)
StrLess(a, b) ==
    IF b = <<>> THEN FALSE
    ELSE IF a = <<>> THEN TRUE
    ELSE IF Head(a) = Head(b) THEN StrLess(Tail(a), Tail(b))
    ELSE Ord(Head(a)) < Ord(Head(b))

RECURSIVE InsertRow(_, _)
InsertRow(r, sorted) ==
    IF sorted = <<>> THEN <<r>>
    ELSE IF StrLess(r.Country, Head(sorted).Country) THEN <<r>> \o sorted
    ELSE <<Head(sorted)>> \o InsertRow(r, Tail(sorted))

RECURSIVE sort_index(_)
(* df.set_index("Country").sort_index(): rows in ascending key order *)
sort_index(df) ==
    IF df = <<>> THEN <<>>
    ELSE InsertRow(df[Len(df)], sort_index(SubSeq(df, 1, Len(df) - 1)))

Keys(df) == {df[i].Country : i \in 1..Len(df)}

(* df.duplicated("Country"): a row repeats the key of an earlier row *)
duplicated(df) ==
    {i \in 1..Len(df) : \E j \in 1..(i - 1) : df[j].Country = df[i].Country}

(* keep="last" in place of keep="first" *)
drop_duplicates_keep_last(df) ==
    SelectRows(df, {i \in 1..Len(df) :
                      \A j \in (i + 1)..Len(df) : df[j].Country # df[i].Country})

(* each key once, at its first row's place, with the mean of its rows'
   values *)
drop_duplicates_mean(df) ==
    LET first == (1..Len(df)) \ duplicated(df)
        group(k) == SelectSeq(df, LAMBDA r : r.Country = k)
    IN  SelectRows([i \in 1..Len(df) |->
                       [Country |-> df[i].Country,
                        val |-> mean(Values(group(df[i].Country)))]],
                   first)

(* df.drop_duplicates("Country", keep="first") *)
drop_duplicates(df) == SelectRows(df, (1..Len(df)) \ duplicated(df))

normalise_rows(df) ==
    [i \in 1..Len(df) |-> [df[i] EXCEPT !.Country = canonical(@)]]

(* Series.replace(name_map): a value that is a key of the mapping is
   replaced by what it maps to, every other value is kept *)
replace_names(df, map) ==
    [i \in 1..Len(df) |->
        IF df[i].Country \in DOMAIN map
        THEN [df[i] EXCEPT !.Country = map[@]] ELSE df[i]]

missing_mask(df) == {i \in 1..Len(df) : isna(df[i].val)}

NotWritten == [written |-> FALSE, rows |-> <<>>]

Written(rows) == [written |-> TRUE, rows |-> rows]

(* the report written without the "if missing.any()" guard *)
dropped_report_unguarded(df, before) == Written(SelectRows(df, missing_mask(df)))

(* "if missing.any(): df.loc[missing].to_csv(...)": the report file after
   the step, given the file before it *)
dropped_report(df, before) ==
    IF missing_mask(df) # {} THEN Written(SelectRows(df, missing_mask(df)))
    ELSE before

(* the missing rows logged but left in the table *)
drop_missing_keeps_all(df) == df

drop_missing(df) == SelectRows(df, (1..Len(df)) \ missing_mask(df))

----------------------------------------------------------------------------
(* clean_demographics *)

LIFE_EXPECTANCY_FLOOR == 40

LIFE_EXPECTANCY_CEILING == 100

(* the range check without its upper bound *)
bad_life_expectancy_no_ceiling(le) ==
    \/ isna(le)
    \/ RatLess(le, Int2Rat(LIFE_EXPECTANCY_FLOOR))
    \/ RatLess(le, Int2Rat(0))

bad_life_expectancy(le) ==
    \/ isna(le)
    \/ RatLess(le, Int2Rat(LIFE_EXPECTANCY_FLOOR))
    \/ RatLess(Int2Rat(LIFE_EXPECTANCY_CEILING), le)
    \/ RatLess(le, Int2Rat(0))

(* rows of the demographics table up to the life-expectancy filter, each
   with its raw name kept beside the normalised one *)
demo_coerced(raw) ==
    LET kept == drop_non_country_rows(raw)
    IN  [i \in 1..Len(kept) |->
            [Country_raw |-> kept[i].Country,
             Country     |-> canonical(kept[i].Country),
             val         |-> numericise(kept[i].val)]]

(* bad = isna | < 40 | > 100 | < 0 *)
bad_rows(df) == {i \in 1..Len(df) : bad_life_expectancy(df[i].val)}

(* df.loc[~bad] with the lower bound of the range left out of bad *)
demo_valid_without_floor(df) ==
    SelectRows(df, {i \in 1..Len(df) :
                      /\ ~isna(df[i].val)
                      /\ ~RatLess(Int2Rat(LIFE_EXPECTANCY_CEILING), df[i].val)
                      /\ ~RatLess(df[i].val, Int2Rat(0))})

(* df.loc[~bad] *)
demo_valid(df) == SelectRows(df, (1..Len(df)) \ bad_rows(df))

(* "if bad.any(): print(f'Dropped {int(bad.sum())} row(s) ...')": the counts
   the step prints *)
dropped_line(df) ==
    IF bad_rows(df) # {} THEN <<Cardinality(bad_rows(df))>> ELSE <<>>

(* dict(zip(df["Country_raw"], df["Country"])): a later row overwrites an
   earlier one with the same raw name *)
build_name_map(df) ==
    [r \in {df[i].Country_raw : i \in 1..Len(df)} |->
        df[CHOOSE i \in 1..Len(df) :
              /\ df[i].Country_raw = r
              /\ \A j \in (i + 1)..Len(df) : df[j].Country_raw # r].Country]

drop_raw_column(df) ==
    [i \in 1..Len(df) |-> [Country |-> df[i].Country, val |-> df[i].val]]

----------------------------------------------------------------------------
(* Column lookup by name.  A column label is a string; ColumnText gives its
   characters *)

ColumnText ==
    "LifeExpectancy Both" :> <<"L","i","f","e","E","x","p","e","c","t","a","n","c","y"," ","B","o","t","h">> @@
    "LifeExpectancy_Both" :> <<"L","i","f","e","E","x","p","e","c","t","a","n","c","y","_","B","o","t","h">> @@
    "Life Expectancy" :> <<"L","i","f","e"," ","E","x","p","e","c","t","a","n","c","y">> @@
    "Population" :> <<"P","o","p","u","l","a","t","i","o","n">> @@
    "pop_2020" :> <<"p","o","p","_","2","0","2","0">> @@
    "Pop_total" :> <<"P","o","p","_","t","o","t","a","l">> @@
    "Inhabitants" :> <<"I","n","h","a","b","i","t","a","n","t","s">>

NoColumn == "None"

GDP_COL == "GDP_per_capita_PPP"

(* the first label of cols that satisfies the test, or None *)
first_column(cols, matching) ==
    LET hits == {i \in 1..Len(cols) : cols[i] \in matching}
    IN  IF hits = {} THEN NoColumn
        ELSE cols[CHOOSE i \in hits : \A j \in hits : i <= j]

(* "LifeExpectancy" in c and "Both" in c *)
is_le_both(c) ==
    /\ IsInfix(<<"L","i","f","e","E","x","p","e","c","t","a","n","c","y">>, ColumnText[c])
    /\ IsInfix(<<"B","o","t","h">>, ColumnText[c])

(* le_col = next((c for c in df.columns if ...), None) *)
find_le_col(cols) ==
    first_column(cols, {c \in DOMAIN ColumnText : is_le_both(c)})

(* c.lower().startswith("pop") *)
is_pop_like(c) == StartsWith(LowerStr(ColumnText[c]), <<"p","o","p">>)

(* the lookup that takes the first pop-like column even when a column named
   "Population" exists *)
find_pop_col_first_match(cols) ==
    first_column(cols, {c \in DOMAIN ColumnText : is_pop_like(c)})

(* pop_col = "Population" if present, else the first pop-like column *)
find_pop_col(cols) ==
    IF \E i \in 1..Len(cols) : cols[i] = "Population" THEN "Population"
    ELSE first_column(cols, {c \in DOMAIN ColumnText : is_pop_like(c)})

----------------------------------------------------------------------------
(* clean_gdp and clean_population: numeric coercion of the whole column *)

gdp_casts(df, cast) == [i \in 1..Len(df) |-> gdp_coerce_cell(df[i].val, cast)]

pop_casts(df) == [i \in 1..Len(df) |-> pop_coerce_cell(df[i].val)]

Failing(casts) == {i \in 1..Len(casts) : casts[i].err # "none"}

(* the exception of the first cell that cannot be cast *)
FirstError(casts) ==
    casts[CHOOSE i \in Failing(casts) : \A j \in Failing(casts) : i <= j].err

WithValues(df, casts) ==
    [i \in 1..Len(df) |-> [Country |-> df[i].Country, val |-> casts[i].val]]

----------------------------------------------------------------------------
(* Inputs of the name-handling run *)

normalise_country_series(col) == [i \in 1..Len(col) |-> canonical(col[i])]

MaxWrap == 2

MaxSeries == 2

OtherNames ==
    { <<"p","e","r","u">>, <<"P","e","r","u"," ","2">>,
      <<"S","o","u","t","h"," ","A","s","i","a">>,
      <<"L","o","w"," ","i","n","c","o","m","e">>,
      <<"P","e","r","\n","u">>,
      <<"E","u","r","o","p","e"," ","(","W","b",")">>,
      <<"O","c","e","a","n","i","a"," ","(","u","n",")">>,
      <<"C","h","a","d">>, <<"\\","D","7">> }

NameCores ==
    {SPECIAL_REPLACEMENTS[i][1] : i \in 1..Len(SPECIAL_REPLACEMENTS)} \cup
    {SPECIAL_REPLACEMENTS[i][2] : i \in 1..Len(SPECIAL_REPLACEMENTS)} \cup
    OtherNames

(* one layer of decoration a source may put around a name *)
Decorate(n) ==
    { <<"t","h","e"," ">> \o n, n \o <<" ">> \o COUNTRY_SUFFIX, <<" ">> \o n \o <<" ">> }

RECURSIVE Wrapped(_)
Wrapped(k) ==
    IF k = 0 THEN NameCores
    ELSE Wrapped(k - 1) \cup UNION {Decorate(n) : n \in Wrapped(k - 1)}

Row(n) == [Country |-> n]

NameInputs ==
    { <<Row(n)>> : n \in Wrapped(MaxWrap) } \cup
    UNION { [1..k -> {Row(n) : n \in NameCores}] : k \in 2..MaxSeries }

Country(df) == [i \in 1..Len(df) |-> df[i].Country]

----------------------------------------------------------------------------
(* The name-handling run: filter a table, normalise its Country column,
   normalise the result again *)

NamesIdle ==
    /\ nm_pc = "idle"
    /\ nm_in = <<>>
    /\ nm_kept = <<>>
    /\ nm_once = <<>>
    /\ nm_twice = <<>>

(* nothing done yet by clean_df.main *)
CleanFresh ==
    /\ err = "none"
    /\ loc_src = "none"
    /\ loc_coerced = <<>>
    /\ loc_valid = <<>>
    /\ loc_dedup = <<>>
    /\ demo_df = <<>>
    /\ name_map = <<>>
    /\ gdp_df = <<>>
    /\ pop_df = <<>>
    /\ gdp_dropped = NotWritten
    /\ pop_dropped = NotWritten
    /\ saved = {}
    /\ loc_raw = <<>>
    /\ loc_cols = <<>>
    /\ loc_col = NoColumn
    /\ loc_dropped = <<>>
    /\ loc_outliers = <<>>

CleanIdle ==
    /\ pc = "idle"
    /\ na_cast = "nan"
    /\ CleanFresh

TukeyIdle ==
    /\ tk_pc = "idle"
    /\ tk_src = "none"
    /\ tk_in = <<>>
    /\ tk_out = <<>>
    /\ tk_count = <<>>

RunIdle ==
    /\ run_pc = "idle"
    /\ run_k = 0
    /\ run_present = {}
    /\ run_log = <<>>
    /\ run_err = "none"

(* nothing computed yet by feature_engineering.main *)
FeFresh ==
    /\ fe_joined = <<>>
    /\ merged = <<>>
    /\ lost_file = NotWritten
    /\ zero_file = NotWritten
    /\ logged = <<>>
    /\ standardized = <<>>
    /\ X = <<>>
    /\ fe_err = "none"

FeIdle ==
    /\ fe_pc = "idle"
    /\ fe_demo = <<>>
    /\ fe_gdp = <<>>
    /\ fe_pop = <<>>
    /\ le_header = "LifeExpectancy_Both"
    /\ FeFresh

NamesInit ==
    /\ nm_pc = "read"
    /\ nm_in \in NameInputs
    /\ nm_kept = <<>>
    /\ nm_once = <<>>
    /\ nm_twice = <<>>
    /\ CleanIdle
    /\ FeIdle
    /\ TukeyIdle
    /\ RunIdle

DropNonCountry ==
    /\ nm_pc = "read"
    /\ nm_kept' = drop_non_country_rows(nm_in)
    /\ nm_pc' = "filtered"
    /\ UNCHANGED <<nm_in, nm_once, nm_twice, cl_vars, fe_vars, tk_vars, run_vars>>

Normalise ==
    /\ nm_pc = "filtered"
    /\ nm_once' = normalise_country_series(Country(nm_in))
    /\ nm_pc' = "once"
    /\ UNCHANGED <<nm_in, nm_kept, nm_twice, cl_vars, fe_vars, tk_vars, run_vars>>

NormaliseAgain ==
    /\ nm_pc = "once"
    /\ nm_twice' = normalise_country_series(nm_once)
    /\ nm_pc' = "twice"
    /\ UNCHANGED <<nm_in, nm_kept, nm_once, cl_vars, fe_vars, tk_vars, run_vars>>

NamesNext == DropNonCountry \/ Normalise \/ NormaliseAgain

SpecNames == NamesInit /\ [][NamesNext]_vars

----------------------------------------------------------------------------
(* clean_df.main: the three cleaners in sequence *)

MaxRows == 2

DemoCells == { <<"7","0">>, <<"3","9">>, <<>>, <<"1","0","1">>, <<"-","5">> }

GdpCells == { <<"$","4">>, <<"6">>, <<>>, <<"1",".","2",".","3">> }

(* populations are powers of ten: their logarithms are rational *)
PopCells == { <<"1",",","0">>, <<"1","0","0">>, <<>> }

(* the value columns a demographics CSV may have *)
DemoHeaders == { <<"LifeExpectancy Both">>, <<"Life Expectancy">> }

(* the value columns a population CSV may have *)
PopHeaders ==
    { <<"pop_2020", "Population">>, <<"Inhabitants", "Pop_total", "pop_2020">>,
      <<"Inhabitants">> }

Tables(cells) ==
    UNION { [1..k -> [Country : TableNames, val : cells]] : k \in 0..MaxRows }

CleanInit ==
    /\ NamesIdle
    /\ FeIdle
    /\ TukeyIdle
    /\ RunIdle
    /\ pc = "start"
    /\ na_cast \in {"raises", "nan"}
    /\ CleanFresh

CleanDemographics ==
    /\ pc = "start"
    /\ loc_src' = "demo"
    /\ loc_outliers' = <<>>
    /\ \E cols \in DemoHeaders :
         /\ loc_cols' = cols
         /\ loc_col' = find_le_col(cols)
         /\ IF find_le_col(cols) = NoColumn
            THEN /\ err' = "KeyError"
                 /\ pc' = "failed"
                 /\ loc_coerced' = <<>>
                 /\ loc_valid' = <<>>
                 /\ loc_dedup' = <<>>
                 /\ loc_dropped' = <<>>
                 /\ loc_raw' = <<>>
                 /\ UNCHANGED <<name_map, demo_df, saved>>
            ELSE \E raw \in Tables(DemoCells) :
                   LET coerced == demo_coerced(raw)
                       valid   == demo_valid(coerced)
                       dedup   == drop_duplicates(drop_raw_column(valid))
                   IN  /\ loc_coerced' = drop_raw_column(coerced)
                       /\ loc_raw' = [i \in 1..Len(coerced) |-> coerced[i].Country_raw]
                       /\ loc_dropped' = dropped_line(coerced)
                       /\ loc_valid' = drop_raw_column(valid)
                       /\ loc_dedup' = dedup
                       /\ name_map' = build_name_map(valid)
                       /\ demo_df' = sort_index(dedup)
                       /\ saved' = saved \cup {"demo"}
                       /\ pc' = "demo_done"
                       /\ err' = err
    /\ UNCHANGED <<nm_vars, fe_vars, tk_vars, run_vars, na_cast, gdp_df, pop_df,
                   gdp_dropped, pop_dropped>>

CleanGdp ==
    /\ pc = "demo_done"
    /\ loc_src' = "gdp"
    /\ loc_raw' = <<>>
    /\ loc_cols' = <<GDP_COL>>
    /\ loc_col' = GDP_COL
    /\ loc_dropped' = <<>>
    /\ \E raw \in Tables(GdpCells) :
         LET named == normalise_rows(drop_non_country_rows(raw))
             casts == gdp_casts(named, na_cast)
             coerced == WithValues(named, casts)
             valid == drop_missing(coerced)
             dedup == drop_duplicates(valid)
         IN  IF Failing(casts) # {}
             THEN /\ err' = FirstError(casts)
                  /\ pc' = "failed"
                  /\ loc_coerced' = <<>>
                  /\ loc_valid' = <<>>
                  /\ loc_dedup' = <<>>
                  /\ loc_outliers' = <<>>
                  /\ UNCHANGED <<gdp_df, gdp_dropped, saved>>
             ELSE /\ loc_coerced' = coerced
                  /\ gdp_dropped' = dropped_report(coerced, gdp_dropped)
                  /\ loc_valid' = valid
                  /\ loc_outliers' = <<tukey_outliers(Values(valid))>>
                  /\ loc_dedup' = dedup
                  /\ gdp_df' = sort_index(replace_names(dedup, name_map))
                  /\ saved' = saved \cup {"gdp"}
                  /\ pc' = "gdp_done"
                  /\ err' = err
    /\ UNCHANGED <<nm_vars, fe_vars, tk_vars, run_vars, na_cast, demo_df, name_map,
                   pop_df, pop_dropped>>

CleanPopulation ==
    /\ pc = "gdp_done"
    /\ loc_src' = "pop"
    /\ loc_raw' = <<>>
    /\ loc_dropped' = <<>>
    /\ \E cols \in PopHeaders :
         /\ loc_cols' = cols
         /\ loc_col' = find_pop_col(cols)
         /\ IF find_pop_col(cols) = NoColumn
            THEN /\ err' = "KeyError"
                 /\ pc' = "failed"
                 /\ loc_coerced' = <<>>
                 /\ loc_valid' = <<>>
                 /\ loc_dedup' = <<>>
                 /\ loc_outliers' = <<>>
                 /\ UNCHANGED <<pop_df, pop_dropped, saved>>
            ELSE \E raw \in Tables(PopCells) :
                   LET named == normalise_rows(drop_non_country_rows(raw))
                       casts == pop_casts(named)
                       coerced == WithValues(named, casts)
                       valid == drop_missing(coerced)
                       dedup == drop_duplicates(valid)
                   IN  IF Failing(casts) # {}
                       THEN /\ err' = FirstError(casts)
                            /\ pc' = "failed"
                            /\ loc_coerced' = <<>>
                            /\ loc_valid' = <<>>
                            /\ loc_dedup' = <<>>
                            /\ loc_outliers' = <<>>
                            /\ UNCHANGED <<pop_df, pop_dropped, saved>>
                       ELSE /\ loc_coerced' = coerced
                            /\ pop_dropped' = dropped_report(coerced, pop_dropped)
                            /\ loc_valid' = valid
                            /\ loc_outliers' =
                                  <<tukey_outliers(log10_series(Values(valid)))>>
                            /\ loc_dedup' = dedup
                            /\ pop_df' = sort_index(replace_names(dedup, name_map))
                            /\ saved' = saved \cup {"pop"}
                            /\ pc' = "pop_done"
                            /\ err' = err
    /\ UNCHANGED <<nm_vars, fe_vars, tk_vars, run_vars, na_cast, demo_df, name_map,
                   gdp_df, gdp_dropped>>

Next == CleanDemographics \/ CleanGdp \/ CleanPopulation

Spec == CleanInit /\ [][Next]_vars

----------------------------------------------------------------------------
(* The outlier report of clean_gdp and clean_population on a primary column
   of up to MaxColumn values, past the missing-value step *)

MaxColumn == 5

GdpAmounts == {Int2Rat(1), Int2Rat(2), Int2Rat(3), Int2Rat(4), Int2Rat(100)}

(* populations are powers of ten: their logarithms are rational *)
PopExponents == {1, 2, 3, 4, 9}

PopAmounts == {Int2Rat(Pow10(k)) : k \in PopExponents}

PrimaryColumns(src) ==
    UNION { [1..n -> IF src = "gdp" THEN GdpAmounts ELSE PopAmounts] : n \in 0..MaxColumn }

TukeyInit ==
    /\ NamesIdle
    /\ CleanIdle
    /\ FeIdle
    /\ RunIdle
    /\ tk_pc = "valid"
    /\ tk_src \in {"gdp", "pop"}
    /\ tk_in \in PrimaryColumns(tk_src)
    /\ tk_out = <<>>
    /\ tk_count = <<>>

(* the block "c) Tukey outliers": prints the count, assigns nothing to df *)
ReportOutliers ==
    /\ tk_pc = "valid"
    /\ tk_count' =
          tk_count \o <<tukey_outliers(IF tk_src = "gdp" THEN tk_in
                                       ELSE log10_series(tk_in))>>
    /\ tk_out' = tk_in
    /\ tk_pc' = "reported"
    /\ UNCHANGED <<nm_vars, cl_vars, fe_vars, run_vars, tk_src, tk_in>>

TukeyNext == ReportOutliers

SpecTukey == TukeyInit /\ [][TukeyNext]_vars

----------------------------------------------------------------------------
(* main.py: the three scripts run one after the other as subprocesses.  The
   run of clean_df.py is clean_df.main above; the crawler and
   feature_engineering.py are run to their exit status only *)

STEPS == <<"demographics_crawler.py", "clean_df.py", "feature_engineering.py">>

CLEANING == "clean_df.py"

ExitCodes == {0, 1}

Event(ev, k, code) == [ev |-> ev, k |-> k, code |-> code]

(* the call that returns whatever the exit status is *)
call_ignoring_status(code) == "none"

(* subprocess.check_call: raises CalledProcessError on a non-zero status *)
check_call(code) == IF code # 0 THEN "CalledProcessError" ELSE "none"

RunInit ==
    /\ NamesIdle
    /\ CleanIdle
    /\ FeIdle
    /\ TukeyIdle
    /\ run_pc = "check"
    /\ run_k = 1
    /\ run_present \in SUBSET {STEPS[k] : k \in 1..Len(STEPS)}
    /\ run_log = <<>>
    /\ run_err = "none"

(* run_step up to the subprocess call: the existence check and the header *)
CheckScript ==
    /\ run_pc = "check"
    /\ IF STEPS[run_k] \notin run_present
       THEN /\ run_err' = "FileNotFoundError"
            /\ run_pc' = "failed"
            /\ UNCHANGED run_log
       ELSE /\ run_log' = Append(run_log, Event("start", run_k, 0))
            /\ run_pc' = "call"
            /\ UNCHANGED run_err
    /\ UNCHANGED <<nm_vars, cl_vars, fe_vars, tk_vars, run_k, run_present>>

(* the subprocess has exited with status code: check_call raises or returns,
   the loop goes to the next step or, after the last, to the final print *)
Exited(code) ==
    /\ run_log' = Append(run_log, Event("exit", run_k, code))
    /\ run_err' = check_call(code)
    /\ IF check_call(code) # "none" THEN run_pc' = "failed" /\ run_k' = run_k
       ELSE IF run_k < Len(STEPS) THEN run_pc' = "check" /\ run_k' = run_k + 1
       ELSE run_pc' = "report" /\ run_k' = run_k
    /\ UNCHANGED run_present

RunScript ==
    /\ run_pc = "call"
    /\ STEPS[run_k] # CLEANING
    /\ \E code \in ExitCodes : Exited(code)
    /\ UNCHANGED <<nm_vars, cl_vars, fe_vars, tk_vars>>

(* the subprocess of clean_df.py starts clean_df.main *)
StartCleaning ==
    /\ run_pc = "call"
    /\ STEPS[run_k] = CLEANING
    /\ pc = "idle"
    /\ pc' = "start"
    /\ na_cast' \in {"raises", "nan"}
    /\ run_pc' = "wait"
    /\ UNCHANGED <<nm_vars, cl_data, fe_vars, tk_vars, run_k, run_present, run_log,
                   run_err>>

(* clean_df.main has returned (status 0) or ended in an exception (status 1) *)
ExitCleaning ==
    /\ run_pc = "wait"
    /\ pc \in {"pop_done", "failed"}
    /\ Exited(IF pc = "pop_done" THEN 0 ELSE 1)
    /\ UNCHANGED <<nm_vars, cl_vars, fe_vars, tk_vars>>

PrintSuccess ==
    /\ run_pc = "report"
    /\ run_log' = Append(run_log, Event("success", run_k, 0))
    /\ run_pc' = "done"
    /\ UNCHANGED <<nm_vars, cl_vars, fe_vars, tk_vars, run_k, run_present, run_err>>

RunNext ==
    \/ CheckScript
    \/ RunScript
    \/ StartCleaning
    \/ CleanDemographics
    \/ CleanGdp
    \/ CleanPopulation
    \/ ExitCleaning
    \/ PrintSuccess

SpecPipeline == RunInit /\ [][RunNext]_vars

----------------------------------------------------------------------------
(* feature_engineering.py: tables are sequences of rows, a row a function
   from column names to cells *)

GDP_PC_COL == "GDP_per_capita_PPP"

POP_COL == "Population"

LE_BOTH_COL == "LifeExpectancy_Both"

URBAN_COL == "UrbanPopulation_Percentage"

TOTAL_GDP_COL == "TotalGDP"

(* the columns of b added to the row a; a's own columns win *)
MergeRow(a, b) ==
    [c \in DOMAIN a \cup DOMAIN b |-> IF c \in DOMAIN a THEN a[c] ELSE b[c]]

WithColumn(row, c, v) == [k \in DOMAIN row \cup {c} |-> IF k = c THEN v ELSE row[k]]

WithoutColumn(row, c) == [k \in DOMAIN row \ {c} |-> row[k]]

MatchesOf(row, right) ==
    LET m == SelectSeq(right, LAMBDA x : x.Country = row.Country)
    IN  [i \in 1..Len(m) |-> MergeRow(row, m[i])]

RECURSIVE left_join(_, _, _)
(* left.join(right, how="left"): every left row, in order, once per
   matching right row, or once with missing right columns *)
left_join(left, right, rightCols) ==
    IF left = <<>> THEN <<>>
    ELSE LET m == MatchesOf(Head(left), right)
         IN  (IF m = <<>>
              THEN <<MergeRow(Head(left), [c \in rightCols |-> NaN])>>
              ELSE m) \o left_join(Tail(left), right, rightCols)

(* how="left" in place of how="inner" *)
inner_join_keeps_left(left, right) ==
    left_join(left, right, IF right = <<>> THEN {} ELSE DOMAIN right[1] \ {"Country"})

RECURSIVE inner_join(_, _)
(* left.join(right, how="inner"): the left rows whose key the right table
   has, in left order, once per matching right row *)
inner_join(left, right) ==
    IF left = <<>> THEN <<>>
    ELSE MatchesOf(Head(left), right) \o inner_join(Tail(left), right)

(* "gdp = gdp.join(pop[[POP_COL]], how='left')", add_total_gdp, and the drop
   of the Population column again *)
add_total_gdp(gdp, pop) ==
    LET j == left_join(gdp, pop, {POP_COL})
    IN  [i \in 1..Len(j) |->
            WithoutColumn(
                WithColumn(j[i], TOTAL_GDP_COL, Times(j[i][GDP_PC_COL], j[i][POP_COL])),
                POP_COL)]

RECURSIVE SortedNames(_)
(* sorted(names) *)
SortedNames(S) ==
    IF S = {} THEN <<>>
    ELSE LET least == CHOOSE n \in S : \A o \in S \ {n} : StrLess(n, o)
         IN  <<least>> \o SortedNames(S \ {least})

lost_countries(demo, gdp, pop, joined) ==
    SortedNames((Keys(demo) \cup Keys(gdp) \cup Keys(pop)) \ Keys(joined))

(* "if lost: pd.Series(lost).to_csv(LOST_COUNTRIES)" *)
lost_report(lost, before) == IF lost # <<>> THEN Written(lost) ELSE before

(* df.select_dtypes(include="number").columns: every column but the key *)
num_cols(df) == IF df = <<>> THEN {} ELSE DOMAIN df[1] \ {"Country"}

ColumnOf(df, c) == [i \in 1..Len(df) |-> df[i][c]]

(* (df[num_cols] == 0).any(axis=1) *)
zero_mask(df) ==
    {i \in 1..Len(df) : \E c \in num_cols(df) : IsZero(df[i][c])}

(* zeros replaced by the mean over the whole column, zeros included *)
impute_zeros_plain_mean(xs) ==
    [i \in 1..Len(xs) |-> IF IsZero(xs[i]) THEN mean(xs) ELSE xs[i]]

(* one column of the zero replacement: "nonzeros = df.loc[df[col] != 0, col]"
   holds the missing cells too; an empty nonzeros leaves the column alone *)
impute_zeros(xs) ==
    LET nonzeros == SelectSeq(xs, LAMBDA x : ~IsZero(x))
    IN  IF nonzeros = <<>> THEN xs
        ELSE [i \in 1..Len(xs) |-> IF IsZero(xs[i]) THEN mean(nonzeros) ELSE xs[i]]

(* one column of "fill any remaining NaNs" *)
fill_nans(xs) ==
    IF \E i \in 1..Len(xs) : isna(xs[i])
    THEN [i \in 1..Len(xs) |-> IF isna(xs[i]) THEN mean(xs) ELSE xs[i]]
    ELSE xs

(* the imputed table: per column the zero replacement (only when some row
   has a zero), then the NaN fill *)
impute(df) ==
    LET anyZero == zero_mask(df) # {}
        newcol == [c \in num_cols(df) |->
                      fill_nans(IF anyZero THEN impute_zeros(ColumnOf(df, c))
                                ELSE ColumnOf(df, c))]
    IN  [i \in 1..Len(df) |->
            [c \in DOMAIN df[i] |->
                IF c = "Country" THEN df[i][c] ELSE newcol[c][i]]]

(* "if zero_mask.any(): df_final.loc[zero_mask].to_csv(MISSING_VALUES)" *)
zero_report(df, before) ==
    IF zero_mask(df) # {} THEN Written(SelectRows(df, zero_mask(df))) ELSE before

----------------------------------------------------------------------------
(* feature_engineering.py: logarithms and standardization *)

LOG_GDP_COL == "LogGDPperCapita"

LOG_POP_COL == "LogPopulation"

add_log_features(df) ==
    [i \in 1..Len(df) |->
        WithColumn(WithColumn(df[i], LOG_GDP_COL, log10(df[i][GDP_PC_COL])),
                   LOG_POP_COL, log10(df[i][POP_COL]))]

(* a standardized cell (x - mu) / std with std > 0 is held unevaluated, as x
   and the values mu and std were taken over; ZNaN is the cell NaN *)
ZNaN == [nan |-> TRUE, x |-> NaN, of |-> <<>>]

Standardized(x, present) == [nan |-> FALSE, x |-> x, of |-> present]

(* zscore(col): mean() and std(ddof=0) skip the missing cells.  mu is finite
   when a value is present and none is -inf, else it is NaN or -inf and
   every quotient is NaN.  std is 0 exactly when all present values are
   equal, and then every cell is 0/0 = NaN *)
zscore(col) ==
    LET present == SelectSeq(col, LAMBDA x : ~isna(x))
        mu_finite == present # <<>> /\ \A i \in 1..Len(present) : present[i] # NegInf
        std_positive == mu_finite /\ \E i \in 1..Len(present) : present[i] # present[1]
    IN  [i \in 1..Len(col) |->
            IF std_positive /\ ~isna(col[i]) THEN Standardized(col[i], present)
            ELSE ZNaN]

(* cols of zscore_selected, features of main *)
FEATURES == <<LE_BOTH_COL, LOG_GDP_COL, LOG_POP_COL>>

(* the column headers of the merged table; an empty table keeps them *)
merged_columns(header) ==
    {header, URBAN_COL, GDP_PC_COL, TOTAL_GDP_COL, POP_COL}

(* df[cols] raises KeyError when a listed column is not in the table *)
missing_columns(cols, columns) == {i \in 1..Len(cols) : cols[i] \notin columns}

(* df[cols] = df[cols].apply(zscore) *)
zscore_selected(df) ==
    LET z == [k \in 1..Len(FEATURES) |-> zscore(ColumnOf(df, FEATURES[k]))]
        at(c) == CHOOSE k \in 1..Len(FEATURES) : FEATURES[k] = c
    IN  [i \in 1..Len(df) |->
            [c \in DOMAIN df[i] |->
                IF \E k \in 1..Len(FEATURES) : FEATURES[k] = c THEN z[at(c)][i]
                ELSE df[i][c]]]

(* X = merged.loc[:, features].sort_index(): the feature columns, rows in
   ascending key order *)
feature_matrix(df) ==
    LET sorted == sort_index(df)
    IN  [i \in 1..Len(sorted) |->
            [k \in 1..Len(FEATURES) |-> sorted[i][FEATURES[k]]]]

----------------------------------------------------------------------------
(* feature_engineering.main on cleaned tables *)

MaxKeys == 3

KeyNames ==
    << <<"C","h","a","d">>, <<"F","i","j","i">>, <<"P","e","r","u">>,
       <<"T","o","g","o">>, <<"Y","e","m","e","n">> >>

KeyIdx == 1..MaxKeys

LifeValues == {Int2Rat(70)}

UrbanValues == {NaN, Int2Rat(0), Int2Rat(4)}

GdpValues == {Int2Rat(0), Int2Rat(4), Int2Rat(6), Int2Rat(-4)}

PopValues == {Int2Rat(2)}

(* the table with one row per key of S, in ascending key order *)
TableOf(S, rowOf) ==
    LET at(k) == CHOOSE i \in S : Cardinality({j \in S : j < i}) = k - 1
    IN  [k \in 1..Cardinality(S) |-> rowOf[at(k)]]

DemoRow(i, le, urban) ==
    [c \in {"Country", LE_BOTH_COL, URBAN_COL} |->
        IF c = "Country" THEN KeyNames[i] ELSE IF c = LE_BOTH_COL THEN le ELSE urban]

GdpRow(i, v) ==
    [c \in {"Country", GDP_PC_COL} |-> IF c = "Country" THEN KeyNames[i] ELSE v]

PopRow(i, v) ==
    [c \in {"Country", POP_COL} |-> IF c = "Country" THEN KeyNames[i] ELSE v]

DemoTables ==
    UNION { { TableOf(S, [i \in S |-> DemoRow(i, f[i][1], f[i][2])]) :
                f \in [S -> LifeValues \X UrbanValues] } : S \in SUBSET KeyIdx }

GdpTables ==
    UNION { { TableOf(S, [i \in S |-> GdpRow(i, f[i])]) : f \in [S -> GdpValues] } :
            S \in SUBSET KeyIdx }

PopTables ==
    UNION { { TableOf(S, [i \in S |-> PopRow(i, f[i])]) : f \in [S -> PopValues] } :
            S \in SUBSET KeyIdx }

FeInit ==
    /\ NamesIdle
    /\ CleanIdle
    /\ TukeyIdle
    /\ RunIdle
    /\ fe_pc = "loaded"
    /\ fe_demo \in DemoTables
    /\ fe_gdp \in GdpTables
    /\ fe_pop \in PopTables
    /\ le_header = LE_BOTH_COL
    /\ FeFresh

BuildTotalGdp ==
    /\ fe_pc = "loaded"
    /\ fe_gdp' = add_total_gdp(fe_gdp, fe_pop)
    /\ fe_pc' = "total_gdp"
    /\ UNCHANGED <<nm_vars, cl_vars, tk_vars, run_vars, fe_demo, fe_pop, fe_joined, merged, lost_file,
                   zero_file, le_header, fe_out>>

IntegrateAndSave ==
    /\ fe_pc = "total_gdp"
    /\ LET df_final == inner_join(inner_join(fe_demo, fe_gdp), fe_pop)
       IN  /\ fe_joined' = df_final
           /\ lost_file' =
                 lost_report(lost_countries(fe_demo, fe_gdp, fe_pop, df_final), lost_file)
           /\ zero_file' = zero_report(df_final, zero_file)
           /\ merged' = impute(df_final)
    /\ fe_pc' = "merged"
    /\ UNCHANGED <<nm_vars, cl_vars, tk_vars, run_vars, fe_demo, fe_gdp, fe_pop, le_header, fe_out>>

AddLogFeatures ==
    /\ fe_pc = "merged"
    /\ logged' = add_log_features(merged)
    /\ fe_pc' = "logged"
    /\ UNCHANGED <<nm_vars, cl_vars, tk_vars, run_vars, fe_demo, fe_gdp, fe_pop, fe_joined, merged,
                   lost_file, zero_file, le_header, standardized, X, fe_err>>

ZscoreSelected ==
    /\ fe_pc = "logged"
    /\ IF missing_columns(FEATURES,
                          merged_columns(le_header) \cup {LOG_GDP_COL, LOG_POP_COL}) # {}
       THEN /\ fe_err' = "KeyError"
            /\ fe_pc' = "failed"
            /\ UNCHANGED standardized
       ELSE /\ standardized' = zscore_selected(logged)
            /\ fe_pc' = "standardized"
            /\ UNCHANGED fe_err
    /\ UNCHANGED <<nm_vars, cl_vars, tk_vars, run_vars, fe_demo, fe_gdp, fe_pop, fe_joined, merged,
                   lost_file, zero_file, le_header, logged, X>>

BuildFeatureMatrix ==
    /\ fe_pc = "standardized"
    /\ X' = feature_matrix(standardized)
    /\ fe_pc' = "matrix"
    /\ UNCHANGED <<nm_vars, cl_vars, tk_vars, run_vars, fe_demo, fe_gdp, fe_pop, fe_joined, merged,
                   lost_file, zero_file, le_header, logged, standardized, fe_err>>

FeNext ==
    \/ BuildTotalGdp
    \/ IntegrateAndSave
    \/ AddLogFeatures
    \/ ZscoreSelected
    \/ BuildFeatureMatrix

SpecFeatures == FeInit /\ [][FeNext]_vars

----------------------------------------------------------------------------
(* feature_engineering.main on the cleaned tables of fewer countries, with
   more values per column and the life-expectancy column under each name
   clean_demographics lets through *)

MaxMatrixKeys == 2

MatrixLifeValues == {Int2Rat(70), Int2Rat(80)}

MatrixUrbanValues == {Int2Rat(4)}

MatrixPopValues == {Int2Rat(2), Int2Rat(3)}

(* the names the life-expectancy column can have in cleaned_demographics.csv:
   clean_demographics renames no column *)
CleanedLeHeaders == {c \in DOMAIN ColumnText : find_le_col(<<c>>) = c}

DemoRowAs(h, i, le, urban) ==
    [c \in {"Country", h, URBAN_COL} |->
        IF c = "Country" THEN KeyNames[i] ELSE IF c = h THEN le ELSE urban]

MatrixDemoTables(h) ==
    UNION { { TableOf(S, [i \in S |-> DemoRowAs(h, i, f[i][1], f[i][2])]) :
                f \in [S -> MatrixLifeValues \X MatrixUrbanValues] } :
            S \in SUBSET (1..MaxMatrixKeys) }

MatrixGdpTables ==
    UNION { { TableOf(S, [i \in S |-> GdpRow(i, f[i])]) : f \in [S -> GdpValues] } :
            S \in SUBSET (1..MaxMatrixKeys) }

MatrixPopTables ==
    UNION { { TableOf(S, [i \in S |-> PopRow(i, f[i])]) : f \in [S -> MatrixPopValues] } :
            S \in SUBSET (1..MaxMatrixKeys) }

MatrixInit ==
    /\ NamesIdle
    /\ CleanIdle
    /\ TukeyIdle
    /\ RunIdle
    /\ fe_pc = "loaded"
    /\ le_header \in CleanedLeHeaders
    /\ fe_demo \in MatrixDemoTables(le_header)
    /\ fe_gdp \in MatrixGdpTables
    /\ fe_pop \in MatrixPopTables
    /\ FeFresh

SpecMatrix == MatrixInit /\ [][FeNext]_vars

----------------------------------------------------------------------------
(* Claims about the name helpers *)

HasDigit(n) == \E i \in 1..Len(n) : n[i] \in Digits

HasNewline(n) == \E i \in 1..Len(n) : n[i] = "\n"

AggregateKeywords ==
    { <<"a","f","r","i","c","a">>, <<"a","m","e","r","i","c","a">>,
      <<"a","s","i","a">>, <<"e","u","r","o","p","e">>,
      <<"i","n","c","o","m","e">>, <<"w","o","r","l","d">>,
      <<"u","n",")">>, <<"(","w","b">> }

HasKeyword(n) == \E k \in AggregateKeywords : IsInfix(k, LowerStr(n))

(* C1: every row returned by _drop_non_country_rows has a Country name with
   no digit, no newline and none of the aggregate keywords (any case) *)
C1_SurvivorsAreCountries ==
    nm_pc # "read" =>
        \A i \in 1..Len(nm_kept) :
            /\ ~HasDigit(nm_kept[i].Country)
            /\ ~HasNewline(nm_kept[i].Country)
            /\ ~HasKeyword(nm_kept[i].Country)

(* C2: normalising an already normalised name changes nothing:
   canonicalize(canonicalize(x)) = canonicalize(x) for every input *)
C2_NormaliseIdempotent ==
    nm_pc = "twice" => nm_twice = nm_once

----------------------------------------------------------------------------
(* Claims about the cleaners *)

UniqueKeys(df) ==
    \A i, j \in 1..Len(df) : df[i].Country = df[j].Country => i = j

(* C3: each cleaned table has a unique country key, also after the
   name-map substitution of clean_gdp and clean_population *)
C3_CleanedKeysUnique ==
    /\ "demo" \in saved => UniqueKeys(demo_df)
    /\ "gdp" \in saved => UniqueKeys(gdp_df)
    /\ "pop" \in saved => UniqueKeys(pop_df)

(* C4: numeric coercion never raises: no run of the cleaners ends in the
   exception of a cell that cannot be cast *)
C4_CoercionNeverRaises ==
    err \notin {"ValueError", "TypeError"}

CountRow(r, df) == Cardinality({i \in 1..Len(df) : df[i] = r})

Rows(df) == {df[i] : i \in 1..Len(df)}

StepReport == IF loc_src = "gdp" THEN gdp_dropped ELSE pop_dropped

StepCleaned == IF loc_src = "gdp" THEN gdp_df ELSE pop_df

PastCoercion == loc_src \in {"gdp", "pop"} /\ pc # "failed"

(* C5: the missing-value step of clean_gdp and clean_population splits the
   coerced table into the reported rows, all missing, and the continuing
   rows, none missing; every coerced row is in exactly one of the two, and
   the cleaned table has no missing primary value *)
C5_MissingPartition ==
    PastCoercion =>
        /\ \A i \in 1..Len(StepReport.rows) : isna(StepReport.rows[i].val)
        /\ \A i \in 1..Len(loc_valid) : ~isna(loc_valid[i].val)
        /\ Len(loc_coerced) = Len(loc_valid) + Len(StepReport.rows)
        /\ \A r \in Rows(loc_coerced) \cup Rows(loc_valid) \cup Rows(StepReport.rows) :
              CountRow(r, loc_coerced) =
                  CountRow(r, loc_valid) + CountRow(r, StepReport.rows)
        /\ \A i \in 1..Len(StepCleaned) : ~isna(StepCleaned[i].val)

C5_Witness ==
    /\ PastCoercion
    /\ loc_src = "gdp"
    /\ Len(loc_valid) = 1
    /\ Len(gdp_dropped.rows) = 1

(* C6 as stated: every run of clean_gdp and of clean_population writes its
   dropped-rows report, also when no row is missing *)
C6_ReportAlwaysWritten ==
    PastCoercion => StepReport.written

(* C6 as amended: a run that gets past numeric coercion writes its
   dropped-rows report exactly when at least one row has a missing primary
   value; with no missing row no report is written *)
C6_ReportWrittenIffMissing ==
    PastCoercion =>
        /\ StepReport.written <=> (\E i \in 1..Len(loc_coerced) : isna(loc_coerced[i].val))
        /\ StepReport.written => StepReport.rows # <<>>

C6_Witness ==
    /\ PastCoercion
    /\ loc_src = "pop"
    /\ loc_coerced # <<>>
    /\ ~pop_dropped.written

FirstWithKey(df, k) ==
    df[CHOOSE i \in 1..Len(df) :
          /\ df[i].Country = k
          /\ \A j \in 1..(i - 1) : df[j].Country # k]

(* C7: the keep-first duplicate step of each cleaner returns a table with
   no duplicate key, one row per distinct key of its input, each the first
   row of its key in input order *)
C7_KeepFirst ==
    (loc_src \in {"demo", "gdp", "pop"} /\ pc # "failed") =>
        /\ UniqueKeys(loc_dedup)
        /\ Len(loc_dedup) = Cardinality(Keys(loc_valid))
        /\ Keys(loc_dedup) = Keys(loc_valid)
        /\ \A i \in 1..Len(loc_dedup) :
              loc_dedup[i] = FirstWithKey(loc_valid, loc_dedup[i].Country)

C7_Witness ==
    /\ loc_src = "gdp"
    /\ pc = "gdp_done"
    /\ Len(loc_valid) = 2
    /\ loc_valid[1].Country = loc_valid[2].Country
    /\ loc_valid[1].val # loc_valid[2].val
    /\ loc_dedup = <<loc_valid[1]>>

----------------------------------------------------------------------------
(* Claims about integrate_and_save *)

Ascending(names) ==
    \A i \in 1..(Len(names) - 1) : StrLess(names[i], names[i + 1])

Elements(names) == {names[i] : i \in 1..Len(names)}

CommonKeys == Keys(fe_demo) \cap Keys(fe_gdp) \cap Keys(fe_pop)

AllKeys == Keys(fe_demo) \cup Keys(fe_gdp) \cup Keys(fe_pop)

(* C8: the joined table's keys are exactly the keys all three tables have,
   and the lost-countries list written is exactly the other keys of the
   three tables, in ascending order *)
C8_JoinAndLost ==
    fe_pc = "merged" =>
        /\ Keys(merged) = CommonKeys
        /\ Keys(fe_joined) = CommonKeys
        /\ Elements(lost_file.rows) = AllKeys \ CommonKeys
        /\ Ascending(lost_file.rows)

C8_Witness ==
    /\ fe_pc = "merged"
    /\ Keys(fe_demo) = {KeyNames[1], KeyNames[2], KeyNames[3]}
    /\ Keys(fe_gdp) = {KeyNames[1], KeyNames[2]}
    /\ Keys(fe_pop) = {KeyNames[1], KeyNames[2], KeyNames[3]}
    /\ Keys(merged) = {KeyNames[1], KeyNames[2]}
    /\ lost_file = Written(<<KeyNames[3]>>)

(* the non-zero, non-missing cells of a column *)
NonZeroCells(xs) == SelectSeq(xs, LAMBDA x : ~isna(x) /\ ~IsZero(x))

(* C9: in every numeric column of the joined table that has a non-zero
   value, each zero cell becomes the mean of that column's non-zero values,
   and every non-zero non-missing cell of any column is left as it was *)
C9_ZeroImputation ==
    fe_pc = "merged" =>
        /\ Len(merged) = Len(fe_joined)
        /\ \A i \in 1..Len(fe_joined) : \A c \in DOMAIN fe_joined[i] \ {"Country"} :
              LET before == fe_joined[i][c]
                  nz == NonZeroCells(ColumnOf(fe_joined, c))
              IN  /\ (IsZero(before) /\ nz # <<>>) =>
                        /\ ~isna(merged[i][c])
                        /\ RatMul(merged[i][c], Int2Rat(Len(nz))) = SumRat(nz)
                  /\ (~IsZero(before) /\ ~isna(before)) => merged[i][c] = before

C9_Witness ==
    /\ fe_pc = "merged"
    /\ ColumnOf(fe_joined, GDP_PC_COL) = <<Int2Rat(0), Int2Rat(4), Int2Rat(6)>>
    /\ ColumnOf(merged, GDP_PC_COL) = <<Int2Rat(5), Int2Rat(4), Int2Rat(6)>>

(* C10: the table integrate_and_save returns has no missing cell and no
   zero cell in any numeric column *)
C10_NoNaNNoZero ==
    fe_pc = "merged" =>
        \A i \in 1..Len(merged) : \A c \in DOMAIN merged[i] \ {"Country"} :
            ~isna(merged[i][c]) /\ ~IsZero(merged[i][c])

----------------------------------------------------------------------------
(* The merged table and the feature matrix *)

MergedSaved == fe_pc \in {"merged", "logged", "standardized", "matrix", "failed"}

(* C11: in the merged table that integrate_and_save persists and returns,
   every row's TotalGDP is the product of that row's own
   GDP_per_capita_PPP and Population, imputed rows included *)
C11_TotalGdpIsProduct ==
    MergedSaved =>
        \A i \in 1..Len(merged) :
            merged[i][TOTAL_GDP_COL] = Times(merged[i][GDP_PC_COL], merged[i][POP_COL])

IsRational(x) == Len(x) = 2 /\ x[2] > 0

Squares(xs) == [i \in 1..Len(xs) |-> RatMul(xs[i], xs[i])]

(* the deviations x - mu of a column of rational values *)
Deviations(xs) == [i \in 1..Len(xs) |-> RatSub(xs[i], mean(xs))]

(* a standardized column has mean 0 and population standard deviation 1:
   it has a number, its numbers are the quotients (x - mu) / std of exactly
   their own x values, and, where the values are rational, the deviations
   sum to 0 and their mean square, std squared, is not 0 *)
MeanZeroStdOne(zcol) ==
    LET present == SelectSeq(zcol, LAMBDA z : ~z.nan)
        xs == [i \in 1..Len(present) |-> present[i].x]
    IN  /\ present # <<>>
        /\ \A i \in 1..Len(present) : present[i].of = xs
        /\ (\A i \in 1..Len(xs) : IsRational(xs[i])) =>
              /\ SumRat(Deviations(xs)) = Int2Rat(0)
              /\ ~IsZero(mean(Squares(Deviations(xs))))

(* C12: after zscore_selected each of LifeExpectancy_Both, LogGDPperCapita
   and LogPopulation has mean 0 and population standard deviation 1, for
   every integrated table *)
C12_StandardizedColumns ==
    fe_pc \in {"standardized", "matrix"} =>
        \A k \in 1..Len(FEATURES) :
            MeanZeroStdOne(ColumnOf(standardized, FEATURES[k]))

(* C13: the saved feature matrix has no NaN cell and one row per joined
   country *)
C13_MatrixHasNoNaN ==
    fe_pc = "matrix" =>
        /\ Len(X) = Cardinality(CommonKeys)
        /\ \A i \in 1..Len(X) : \A k \in 1..Len(FEATURES) : ~X[i][k].nan

(* C19: feature derivation finds the life-expectancy column of every
   demographics table clean_demographics accepts: no run ends with a column
   missing *)
C19_LifeExpectancyColumnFound ==
    fe_err # "KeyError"

----------------------------------------------------------------------------
(* Claims about required columns and the life-expectancy filter *)

TextOf(c) == ColumnText[c]

Labels(cols) == {cols[i] : i \in 1..Len(cols)}

NamesBothSexes(c) ==
    /\ IsInfix(<<"L","i","f","e","E","x","p","e","c","t","a","n","c","y">>, TextOf(c))
    /\ IsInfix(<<"B","o","t","h">>, TextOf(c))

PopPrefixed(c) ==
    Len(TextOf(c)) >= 3 /\ LowerStr(SubSeq(TextOf(c), 1, 3)) = <<"p","o","p">>

FirstPopPrefixed(cols) ==
    cols[CHOOSE i \in 1..Len(cols) :
            /\ PopPrefixed(cols[i])
            /\ \A j \in 1..(i - 1) : ~PopPrefixed(cols[j])]

ColumnMissing == pc = "failed" /\ err = "KeyError"

(* C15: clean_demographics raises exactly when no column name contains both
   "LifeExpectancy" and "Both"; clean_population takes "Population" if the
   table has it, otherwise the first column whose lower-cased name starts
   with "pop", and raises exactly when there is neither; a raise leaves no
   cleaned table of that source persisted *)
C15_RequiredColumns ==
    /\ loc_src = "demo" =>
          /\ ColumnMissing <=> ~\E c \in Labels(loc_cols) : NamesBothSexes(c)
          /\ ColumnMissing => "demo" \notin saved /\ demo_df = <<>>
    /\ loc_src = "pop" =>
          /\ ColumnMissing <=>
                /\ "Population" \notin Labels(loc_cols)
                /\ ~\E c \in Labels(loc_cols) : PopPrefixed(c)
          /\ ColumnMissing => "pop" \notin saved /\ pop_df = <<>>
          /\ ~ColumnMissing =>
                loc_col = IF "Population" \in Labels(loc_cols) THEN "Population"
                          ELSE FirstPopPrefixed(loc_cols)

C15_Witness ==
    /\ loc_src = "pop"
    /\ ColumnMissing
    /\ loc_cols = <<"Inhabitants">>
    /\ saved = {"demo", "gdp"}

InRange(v, lo, hi) ==
    ~isna(v) /\ ~RatLess(v, Int2Rat(lo)) /\ ~RatLess(Int2Rat(hi), v)

DemoFiltered == loc_src = "demo" /\ pc = "demo_done"

(* C16: every row of the cleaned Demographics table has a life expectancy
   that is present and inside [0, 100]; the filter drops every row whose
   value is missing or outside [0, 100], and no such row ends the run *)
C16_LifeExpectancyInRange ==
    /\ \A i \in 1..Len(demo_df) : InRange(demo_df[i].val, 0, 100)
    /\ loc_src = "demo" /\ loc_col # NoColumn => pc # "failed"
    /\ DemoFiltered =>
          \A i \in 1..Len(loc_coerced) :
              ~InRange(loc_coerced[i].val, 0, 100) => loc_coerced[i] \notin Rows(loc_valid)

C16_Witness ==
    /\ DemoFiltered
    /\ Len(loc_coerced) = 2
    /\ loc_coerced[1].val = Int2Rat(101)
    /\ loc_coerced[2].val = Int2Rat(70)
    /\ Len(demo_df) = 1
    /\ demo_df[1].val = Int2Rat(70)

(* the rows of the coerced demographics table the filter keeps *)
KeptRows == {i \in 1..Len(loc_coerced) : InRange(loc_coerced[i].val, 40, 100)}

(* C20: no row of the cleaned Demographics table has a life expectancy in
   [0, 40); the printed dropped-row count is the number of rows removed,
   those below 40 among them; and the NameMap has an entry for exactly the
   raw names of the rows kept, so a row below 40 enters none *)
C20_FloorForty ==
    /\ \A i \in 1..Len(demo_df) : ~InRange(demo_df[i].val, 0, 39)
    /\ \A i \in 1..Len(demo_df) : ~RatLess(demo_df[i].val, Int2Rat(40))
    /\ DemoFiltered =>
          /\ Len(loc_valid) = Cardinality(KeptRows)
          /\ loc_dropped = IF Len(loc_coerced) > Len(loc_valid)
                           THEN <<Len(loc_coerced) - Len(loc_valid)>> ELSE <<>>
          /\ DOMAIN name_map = {loc_raw[i] : i \in KeptRows}

C20_Witness ==
    /\ DemoFiltered
    /\ Len(loc_coerced) = 2
    /\ loc_coerced[1].val = Int2Rat(39)
    /\ loc_coerced[2].val = Int2Rat(70)
    /\ loc_raw[1] # loc_raw[2]
    /\ loc_dropped = <<1>>
    /\ DOMAIN name_map = {loc_raw[2]}

----------------------------------------------------------------------------
(* Claims about the outlier report *)

(* the values the fences are laid on: raw GDP, log10 of Population *)
Measured == IF tk_src = "gdp" THEN tk_in ELSE [i \in 1..Len(tk_in) |-> log10(tk_in[i])]

Q1 == quantile(Measured, 1)

Q3 == quantile(Measured, 3)

IQR == RatSub(Q3, Q1)

LowerFence == RatSub(Q1, RatMul(Rat(3, 2), IQR))

UpperFence == RatAdd(Q3, RatMul(Rat(3, 2), IQR))

StrictlyOutside ==
    {i \in 1..Len(Measured) :
        RatLess(Measured[i], LowerFence) \/ RatLess(UpperFence, Measured[i])}

AtMost(q) == Cardinality({i \in 1..Len(Measured) : ~RatLess(q, Measured[i])})

AtLeast(q) == Cardinality({i \in 1..Len(Measured) : ~RatLess(Measured[i], q)})

(* q lies between the two sorted values next to position k (n - 1) / 4 *)
IsQuartile(q, k) ==
    /\ 4 * AtMost(q) > k * (Len(Measured) - 1)
    /\ 4 * AtLeast(q) > (4 - k) * (Len(Measured) - 1)

(* C17: the printed outlier count is the number of values strictly outside
   [Q1 - 1.5 IQR, Q3 + 1.5 IQR], on the raw values for GDP and on the log10
   values for Population, and the table after the report is the table
   before it; values 1, 2, 3, 4, 100 give Q1 = 2, Q3 = 4, fences -1 and 7,
   count 1 *)
C17_TukeyCount ==
    tk_pc = "reported" =>
        /\ tk_out = tk_in
        /\ tk_in = <<>> => tk_count = <<0>>
        /\ tk_in # <<>> =>
              /\ IsQuartile(Q1, 1)
              /\ IsQuartile(Q3, 3)
              /\ tk_count = <<Cardinality(StrictlyOutside)>>
        /\ (tk_src = "gdp" /\ tk_in = <<Int2Rat(1), Int2Rat(2), Int2Rat(3), Int2Rat(4),
                                         Int2Rat(100)>>) =>
              /\ Q1 = Int2Rat(2)
              /\ Q3 = Int2Rat(4)
              /\ LowerFence = Int2Rat(-1)
              /\ UpperFence = Int2Rat(7)
              /\ tk_count = <<1>>

C17_Witness ==
    /\ tk_pc = "reported"
    /\ tk_src = "pop"
    /\ tk_in = <<Int2Rat(10), Int2Rat(100), Int2Rat(1000), Int2Rat(10000),
                 Int2Rat(1000000000)>>
    /\ UpperFence = Int2Rat(7)
    /\ tk_count = <<1>>
    /\ tk_out = tk_in

----------------------------------------------------------------------------
(* Claims about the way duplicates are resolved *)

Deduplicated == loc_src \in {"gdp", "pop"} /\ pc # "failed"

GroupValues(df, k) == Values(SelectSeq(df, LAMBDA r : r.Country = k))

ValueOf(df, k) == (CHOOSE r \in Rows(df) : r.Country = k).val

(* C18 as stated: the duplicate step can work under the policy "mean", which
   leaves each key with the mean of its group's values; clean_gdp and
   clean_population take no policy, so what they do is all the step can do *)
C18_MeanOfGroup ==
    Deduplicated =>
        \A k \in Keys(loc_valid) : ValueOf(loc_dedup, k) = mean(GroupValues(loc_valid, k))

(* C18 as amended: the duplicate step of clean_gdp and clean_population is
   fixed to keep-first: each key is left with the value of its first row,
   whatever the later rows of its group hold, and a run ends with no error
   other than a missing column or a failed numeric cast *)
C18_FirstOfGroup ==
    /\ err \in {"none", "KeyError", "TypeError", "ValueError"}
    /\ Deduplicated =>
          \A k \in Keys(loc_valid) :
              /\ Cardinality({i \in 1..Len(loc_dedup) : loc_dedup[i].Country = k}) = 1
              /\ ValueOf(loc_dedup, k) = GroupValues(loc_valid, k)[1]

C18_Witness ==
    /\ loc_src = "pop"
    /\ pc = "pop_done"
    /\ Len(loc_valid) = 2
    /\ loc_valid[1].Country = loc_valid[2].Country
    /\ Values(loc_valid) = <<Int2Rat(10), Int2Rat(100)>>
    /\ Values(loc_dedup) = <<Int2Rat(10)>>

(* C14 *)
Started(k) == \E p \in 1..Len(run_log) : run_log[p] = Event("start", k, 0)

Succeeded(k) == \E p \in 1..Len(run_log) : run_log[p] = Event("exit", k, 0)

(* every event of the run follows the one the loop of main.py puts before it *)
OrderedLog ==
    \A p \in 1..Len(run_log) :
       LET e == run_log[p]
       IN  /\ e.ev = "start" =>
                 IF e.k = 1 THEN p = 1
                 ELSE p > 1 /\ run_log[p - 1] = Event("exit", e.k - 1, 0)
           /\ e.ev = "exit" =>
                 /\ p > 1
                 /\ run_log[p - 1] = Event("start", e.k, 0)
                 /\ e.code # 0 => p = Len(run_log)
           /\ e.ev = "success" =>
                 /\ p = Len(run_log)
                 /\ \A k \in 1..Len(STEPS) : Succeeded(k)

(* a missing script is not started, and neither is any step after it *)
MissingStops ==
    \A k \in 1..Len(STEPS) :
       STEPS[k] \notin run_present =>
          \A j \in k..Len(STEPS) : ~Started(j)

(* the cleaners run inside the second step, the demographics cleaner first *)
CleanersInOrder ==
    /\ pc # "idle" => Started(2)
    /\ Started(3) => pc = "pop_done"
    /\ loc_src \in {"gdp", "pop"} => "demo" \in saved
    /\ "gdp" \in saved => "demo" \in saved
    /\ "pop" \in saved => "gdp" \in saved

(* clean_gdp and clean_population start with the NameMap clean_demographics
   returned, and leave it as it is *)
CleanerStart ==
    loc_src' # loc_src /\ loc_src' \in {"gdp", "pop"} =>
       /\ "demo" \in saved
       /\ pc \in {"demo_done", "gdp_done"}
       /\ name_map' = name_map

(* C14: main.py starts the crawler, clean_df.py and feature_engineering.py in
   this order, each only after the one before it has exited with status 0; a
   missing script or a non-zero status ends the run with no later step started
   and no success message; the success message comes only after all three have
   succeeded.  In clean_df.main, clean_gdp and clean_population start only
   after clean_demographics has returned the NameMap. *)
C14_StagesInOrder ==
    /\ [](OrderedLog /\ MissingStops /\ CleanersInOrder)
    /\ [][CleanerStart]_vars

(* clean_df.py failed after the crawler succeeded: the run stopped there *)
C14_Witness ==
    /\ run_pc = "failed"
    /\ run_err = "CalledProcessError"
    /\ run_log = <<Event("start", 1, 0), Event("exit", 1, 0), Event("start", 2, 0),
                   Event("exit", 2, 1)>>
    /\ pc = "failed"
    /\ "demo" \in saved
    /\ STEPS[3] \in run_present

====
